---- MODULE Spec2Model ----
(***************************************************************************)
(* Map utilities of charts/map/MapUtils.ts.                                *)
(*                                                                         *)
(* Two programs are modelled:                                              *)
(*   - getBackground, the background tiler, as a state machine that takes  *)
(*     one step per loop test (SpecBg, and FairBg with weak fairness);     *)
(*   - multiPolygonToGeo followed by multiGeoPolygonToMultipolygon, the    *)
(*     coordinate mapper, one step per loop iteration (SpecMap).           *)
(*                                                                         *)
(* Numbers.  Degrees are held exactly as integers in units of 1/Scale of a *)
(* degree.  Every input is a multiple of 12 units, so the divisions by     *)
(* ceil(span / 90), which is 1..4, are exact: the model is the code with   *)
(* its arithmetic taken as exact, not as IEEE doubles.  The three special  *)
(* values a division by zero produces (NaN, +Infinity, -Infinity) are kept,*)
(* with the rules JavaScript gives them.                                   *)
(***************************************************************************)
EXTENDS Integers, Sequences, FiniteSets, TLC

VARIABLES
    args,          \* the arguments getBackground was called with
    north, east, south, west,   \* the parameters (reassigned by the nudge)
    stepLong, stepLat,
    ln, ll, lt,    \* loop variables
    multiPolygon,  \* the result under construction
    edges,         \* history: for every emitted point, the loop that emitted it
    pc,            \* position in getBackground
    mp,            \* mapper: the input multi-polygon
    multiGeoArea,  \* mapper: result of multiPolygonToGeo
    back,          \* mapper: result of multiGeoPolygonToMultipolygon
    mi,            \* mapper: loop index i (0-based, as in the code)
    mcall,         \* mapper: the call made, "roundTrip" or "toPolygon"
    mpc            \* mapper: position

bgVars  == <<args, north, east, south, west, stepLong, stepLat, ln, ll, lt,
             multiPolygon, edges, pc>>
mapVars == <<mp, multiGeoArea, back, mi, mcall, mpc>>
vars    == <<bgVars, mapVars>>

----------------------------------------------------------------------------
(* Units *)

\* units per degree: 1/20000 degree resolves 179.9999 and 179.99995, and the
\* factor 12 makes division by 1, 2, 3 and 4 exact
Scale == 20000 * 12

Deg(d) == d * Scale

\* 0.0001 degree
Eps == Scale \div 10000

\* JavaScript's special numbers; every finite value of the model lies strictly
\* between NegInf and Inf, so <= on integers orders them as JavaScript does
Inf == 2^30
NegInf == -Inf
NaN == Inf + 1

IsNum(a) == a \notin {NaN, Inf, NegInf}

\* a + b
Plus(a, b) ==
    IF a = NaN \/ b = NaN THEN NaN
    ELSE IF ~IsNum(a) THEN (IF ~IsNum(b) /\ b # a THEN NaN ELSE a)
    ELSE IF ~IsNum(b) THEN b
    ELSE a + b

\* a - b
Minus(a, b) ==
    Plus(a, IF b = NaN THEN NaN ELSE IF b = Inf THEN NegInf
            ELSE IF b = NegInf THEN Inf ELSE -b)

\* a <= b, a >= b, a < b, a > b: false when either side is NaN
Le(a, b) == a # NaN /\ b # NaN /\ a <= b
Ge(a, b) == Le(b, a)
Lt(a, b) == a # NaN /\ b # NaN /\ a < b
Gt(a, b) == Lt(b, a)

\* Math.min(a, b)
Min(a, b) == IF a = NaN \/ b = NaN THEN NaN ELSE IF a < b THEN a ELSE b

\* Math.ceil(a / b) for finite a and b > 0; a result of 0 stands for +0 when
\* a = 0 and for -0 when a < 0
Ceil(a, b) == -((-a) \div b)

\* a / c for c = Math.ceil(a / b): 0 / 0 is NaN, and a negative a over -0 is
\* +Infinity
Quot(a, c) ==
    IF c # 0 THEN a \div c ELSE IF a = 0 THEN NaN ELSE Inf

----------------------------------------------------------------------------
(* getBackground: lines 181-196 *)

NudgeWestOff(w) == w
NudgeWest(w) == IF w = Deg(-180) THEN -(Deg(180) - Eps) ELSE w

NudgeSouth(s) == IF s = Deg(-90) THEN -(Deg(90) - Eps) ELSE s

NudgeNorth(n) == IF n = Deg(90) THEN Deg(90) - Eps ELSE n

NudgeEast(e) == IF e = Deg(180) THEN Deg(180) - Eps ELSE e

StepLongFixed(e, w) == Deg(90)
StepLongExtra(e, w) == Quot(e - w, Ceil(e - w, Deg(90)) + 1)
StepLong(e, w) == Min(Deg(90), Quot(e - w, Ceil(e - w, Deg(90))))

StepLat(n, s) == Quot(n - s, Ceil(n - s, Deg(90)))

\* the fixed 5 degree increment of the top and bottom edges
LongStepWide == Deg(10)
LongStep == Deg(5)

\* line 202-204
Clamp(l, step, e) == IF Gt(Plus(l, step), e) THEN Minus(e, l) ELSE step

\* the points pushed by the four loops, as [longitude, latitude]
TopPoint(l, n) == <<l, n>>
RightPoint(l, step, t) == <<Plus(l, step), t>>
BottomPoint(l, s) == <<l, s>>
LeftPoint(l, t) == <<l, t>>

\* surface.push(p): surface is the one ring of the last polygon
Push(m, p) ==
    [m EXCEPT ![Len(m)] = <<Append(m[Len(m)][1], p)>>]

PushTag(e, t) == [e EXCEPT ![Len(e)] = Append(e[Len(e)], t)]

----------------------------------------------------------------------------
(* Inputs of getBackground: well-formed boxes, west < east, south < north *)

HalfEps == Eps \div 2

Box(n, e, s, w) == [north |-> Deg(n), east |-> Deg(e), south |-> Deg(s),
                    west |-> Deg(w)]

Lons == {Deg(-180), Deg(-170), Deg(-10), Deg(0), Deg(7), Deg(10), Deg(170),
         Deg(180) - Eps, Deg(180) - HalfEps, Deg(180)}

Lats == {Deg(-90), Deg(-80), Deg(-10), Deg(10), Deg(80), Deg(90) - Eps,
         Deg(90) - HalfEps, Deg(90)}

Boxes == {b \in [north : Lats, east : Lons, south : Lats, west : Lons] :
            b.west < b.east /\ b.south < b.north}

MapIdle ==
    /\ mp = <<>>
    /\ multiGeoArea = <<>>
    /\ back = <<>>
    /\ mi = 0
    /\ mcall = "none"
    /\ mpc = "idle"

InitBg ==
    /\ args \in Boxes
    /\ north = args.north
    /\ east = args.east
    /\ south = args.south
    /\ west = args.west
    /\ stepLong = 0
    /\ stepLat = 0
    /\ ln = 0
    /\ ll = 0
    /\ lt = 0
    /\ multiPolygon = <<>>
    /\ edges = <<>>
    /\ pc = "start"
    /\ MapIdle

\* lines 179-198: the nudge, the two steps, the outer loop's initialiser
Enter ==
    /\ pc = "start"
    /\ west' = NudgeWest(west)
    /\ south' = NudgeSouth(south)
    /\ north' = NudgeNorth(north)
    /\ east' = NudgeEast(east)
    /\ stepLong' = StepLong(east', west')
    /\ stepLat' = StepLat(north', south')
    /\ ln' = west'
    /\ pc' = "outer"
    /\ UNCHANGED <<args, ll, lt, multiPolygon, edges, mapVars>>

\* lines 198-206: the outer loop's test, the new polygon, the clamp, and the
\* top loop's initialiser; line 225 when the test fails
Outer ==
    /\ pc = "outer"
    /\ IF Lt(ln, east)
       THEN /\ multiPolygon' = Append(multiPolygon, << <<>> >>)
            /\ edges' = Append(edges, <<>>)
            /\ stepLong' = Clamp(ln, stepLong, east)
            /\ ll' = ln
            /\ pc' = "top"
       ELSE /\ pc' = "done"
            /\ UNCHANGED <<multiPolygon, edges, stepLong, ll>>
    /\ UNCHANGED <<args, north, east, south, west, stepLat, ln, lt, mapVars>>

\* lines 206-208 (and the right loop's initialiser, line 210)
Top ==
    /\ pc = "top"
    /\ IF Le(ll, Plus(ln, stepLong))
       THEN /\ multiPolygon' = Push(multiPolygon, TopPoint(ll, north))
            /\ edges' = PushTag(edges, "top")
            /\ ll' = Plus(ll, LongStep)
            /\ UNCHANGED <<lt, pc>>
       ELSE /\ lt' = north
            /\ pc' = "right"
            /\ UNCHANGED <<multiPolygon, edges, ll>>
    /\ UNCHANGED <<args, north, east, south, west, stepLong, stepLat, ln,
                   mapVars>>

\* lines 210-212 (and the bottom loop's initialiser, line 214)
Right ==
    /\ pc = "right"
    /\ IF Ge(lt, south)
       THEN /\ multiPolygon' = Push(multiPolygon, RightPoint(ln, stepLong, lt))
            /\ edges' = PushTag(edges, "right")
            /\ lt' = Minus(lt, stepLat)
            /\ UNCHANGED <<ll, pc>>
       ELSE /\ ll' = Plus(ln, stepLong)
            /\ pc' = "bottom"
            /\ UNCHANGED <<multiPolygon, edges, lt>>
    /\ UNCHANGED <<args, north, east, south, west, stepLong, stepLat, ln,
                   mapVars>>

\* lines 214-216 (and the left loop's initialiser, line 218)
Bottom ==
    /\ pc = "bottom"
    /\ IF Ge(ll, ln)
       THEN /\ multiPolygon' = Push(multiPolygon, BottomPoint(ll, south))
            /\ edges' = PushTag(edges, "bottom")
            /\ ll' = Minus(ll, LongStep)
            /\ UNCHANGED <<lt, pc>>
       ELSE /\ lt' = south
            /\ pc' = "left"
            /\ UNCHANGED <<multiPolygon, edges, ll>>
    /\ UNCHANGED <<args, north, east, south, west, stepLong, stepLat, ln,
                   mapVars>>

\* lines 218-220 (and the outer loop's increment, line 198)
Left ==
    /\ pc = "left"
    /\ IF Le(lt, north)
       THEN /\ multiPolygon' = Push(multiPolygon, LeftPoint(ln, lt))
            /\ edges' = PushTag(edges, "left")
            /\ lt' = Plus(lt, stepLat)
            /\ UNCHANGED <<ln, pc>>
       ELSE /\ ln' = Plus(ln, stepLong)
            /\ pc' = "outer"
            /\ UNCHANGED <<multiPolygon, edges, lt>>
    /\ UNCHANGED <<args, north, east, south, west, stepLong, stepLat, ll,
                   mapVars>>

NextBg == Enter \/ Outer \/ Top \/ Right \/ Bottom \/ Left

SpecBg == InitBg /\ [][NextBg]_vars

\* getBackground is straight-line synchronous code: a step that can be taken
\* is taken
FairBg == SpecBg /\ WF_vars(NextBg)

----------------------------------------------------------------------------
(* The coordinate mapper: lines 23-44, 68-100, 130-150 *)

\* A polygon is an array of ring slots.  A slot that holds no ring (undefined,
\* null, or an index past the end) is None; a slot that holds ring r is
\* Some(r).  A ring is a sequence of points, a point a sequence of numbers,
\* and a geo-point a record.
None == <<>>
Some(r) == <<r>>

\* array[k] with k counted from 0, as in the code
At(array, k) == IF k < Len(array) THEN array[k + 1] ELSE None

\* if (slot): an array, even an empty one, is truthy
Truthy(slot) == slot # None

\* lines 98-100
pointToGeo(point) == [longitude |-> point[1], latitude |-> point[2]]

\* lines 68-74
multiPointToGeo(points) ==
    [k \in 1..Len(points) |-> pointToGeo(points[k])]

\* lines 83-89
multiGeoToPointSwapped(geoPoints) ==
    [k \in 1..Len(geoPoints) |->
        <<geoPoints[k].latitude, geoPoints[k].longitude>>]
multiGeoToPoint(geoPoints) ==
    [k \in 1..Len(geoPoints) |->
        <<geoPoints[k].longitude, geoPoints[k].latitude>>]

\* lines 28-41: the body of multiPolygonToGeo's loop, for one polygon
PolygonToGeo(polygon) ==
    LET surface == At(polygon, 0)
        hole == At(polygon, 1)
        withSurface == IF Truthy(surface)
                       THEN <<Some(multiPointToGeo(surface[1]))>> ELSE <<>>
    IN  IF Truthy(hole)
        THEN Append(withSurface, Some(multiPointToGeo(hole[1])))
        ELSE withSurface

\* lines 135-146: the body of multiGeoPolygonToMultipolygon's loop
GeoPolygonToPolygon(geoPolygon) ==
    LET surface == At(geoPolygon, 0)
        hole == At(geoPolygon, 1)
        withSurface == IF Truthy(surface)
                       THEN <<Some(multiGeoToPoint(surface[1]))>> ELSE <<>>
    IN  IF Truthy(hole)
        THEN Append(withSurface, Some(multiGeoToPoint(hole[1])))
        ELSE withSurface

\* Inputs of the mapper
MaxPolys == 2
MaxRings == 2

SeqsUpTo(S, n) == UNION {[1..k -> S] : k \in 0..n}

Rings == { << <<1, 2>>, <<3, 4>> >>, << <<5, 6, 7>> >> }
GeoRings == { << [longitude |-> 1, latitude |-> 2],
                 [longitude |-> 3, latitude |-> 4] >>,
              << [longitude |-> 5, latitude |-> 6] >> }

Slots(rings) == {None} \cup {Some(r) : r \in rings}

MultiPolygons == SeqsUpTo(SeqsUpTo(Slots(Rings), MaxRings), MaxPolys)
MultiGeoPolygons == SeqsUpTo(SeqsUpTo(Slots(GeoRings), MaxRings), MaxPolys)

BgIdle ==
    /\ args = Box(0, 0, 0, 0)
    /\ north = 0
    /\ east = 0
    /\ south = 0
    /\ west = 0
    /\ stepLong = 0
    /\ stepLat = 0
    /\ ln = 0
    /\ ll = 0
    /\ lt = 0
    /\ multiPolygon = <<>>
    /\ edges = <<>>
    /\ pc = "idle"

\* either multiPolygonToGeo(mp) followed by multiGeoPolygonToMultipolygon of
\* its result, or multiGeoPolygonToMultipolygon(multiGeoArea) alone
InitMap ==
    /\ \/ /\ mcall = "roundTrip"
          /\ mp \in MultiPolygons
          /\ multiGeoArea = <<>>
          /\ mpc = "toGeo"
       \/ /\ mcall = "toPolygon"
          /\ mp = <<>>
          /\ multiGeoArea \in MultiGeoPolygons
          /\ mpc = "toPolygon"
    /\ back = <<>>
    /\ mi = 0
    /\ BgIdle

\* lines 26-42: one iteration of multiPolygonToGeo's loop
ToGeoStep ==
    /\ mpc = "toGeo"
    /\ mi < Len(mp)
    /\ multiGeoArea' = Append(multiGeoArea, PolygonToGeo(mp[mi + 1]))
    /\ mi' = mi + 1
    /\ UNCHANGED <<mp, back, mcall, mpc, bgVars>>

\* line 43, and the call of multiGeoPolygonToMultipolygon on the result
ToGeoReturn ==
    /\ mpc = "toGeo"
    /\ ~(mi < Len(mp))
    /\ mi' = 0
    /\ mpc' = "toPolygon"
    /\ UNCHANGED <<mp, multiGeoArea, back, mcall, bgVars>>

\* lines 133-147: one iteration of multiGeoPolygonToMultipolygon's loop
ToPolygonStep ==
    /\ mpc = "toPolygon"
    /\ mi < Len(multiGeoArea)
    /\ back' = Append(back, GeoPolygonToPolygon(multiGeoArea[mi + 1]))
    /\ mi' = mi + 1
    /\ UNCHANGED <<mp, multiGeoArea, mcall, mpc, bgVars>>

\* line 149
ToPolygonReturn ==
    /\ mpc = "toPolygon"
    /\ ~(mi < Len(multiGeoArea))
    /\ mpc' = "done"
    /\ UNCHANGED <<mp, multiGeoArea, back, mi, mcall, bgVars>>

NextMap == ToGeoStep \/ ToGeoReturn \/ ToPolygonStep \/ ToPolygonReturn

SpecMap == InitMap /\ [][NextMap]_vars

----------------------------------------------------------------------------
(* Reading the result of getBackground *)

NumPolys == Len(multiPolygon)

\* the ring of polygon p, and the loops that emitted its points
Ring(p) == multiPolygon[p][1]
Tags(p) == edges[p]

\* between two slices, and at the return, every ring has been traced to its
\* end; rings are only ever appended to, so each ring is read here as it is
\* returned
Complete(p) == pc \in {"outer", "done"}

Lon(pt) == pt[1]
Lat(pt) == pt[2]

RingLons(p) == {Lon(Ring(p)[k]) : k \in 1..Len(Ring(p))}

\* the slice's west and east edges: the extreme longitudes of its ring
SliceWest(p) == CHOOSE x \in RingLons(p) : \A y \in RingLons(p) : x <= y
SliceEast(p) == CHOOSE x \in RingLons(p) : \A y \in RingLons(p) : y <= x

\* the positions of the points of ring p that loop t emitted
EdgeIdx(p, t) == {k \in 1..Len(Tags(p)) : Tags(p)[k] = t}

\* the points of ring p that loop t emitted, in emitted order
EdgePoints(p, t) ==
    LET idx == EdgeIdx(p, t)
        nth(k) == CHOOSE i \in idx : Cardinality({j \in idx : j < i}) = k - 1
    IN  [k \in 1..Cardinality(idx) |-> Ring(p)[nth(k)]]

AllPoints ==
    UNION {{Ring(p)[k] : k \in 1..Len(Ring(p))} : p \in 1..NumPolys}

----------------------------------------------------------------------------
(* C1 *)

\* C1: when getBackground returns, the result has exactly
\* ceil((east' - west') / 90) polygons (east', west' the nudged bounds), each
\* of one ring; the first slice starts at west', the last ends at east', and
\* each slice starts where the previous one ends.  getBackground(80, 170,
\* -80, -170) returns 4 polygons covering [-170, 170].
C1_Tiling ==
    pc = "done" =>
        /\ NumPolys = Ceil(east - west, Deg(90))
        /\ \A p \in 1..NumPolys : Len(multiPolygon[p]) = 1
        /\ NumPolys > 0 =>
              /\ SliceWest(1) = west
              /\ SliceEast(NumPolys) = east
        /\ \A p \in 2..NumPolys : SliceWest(p) = SliceEast(p - 1)
        /\ args = Box(80, 170, -80, -170) =>
              /\ NumPolys = 4
              /\ SliceWest(1) = Deg(-170)
              /\ SliceEast(4) = Deg(170)

C1_Witness ==
    /\ pc = "done"
    /\ args = Box(80, 170, -80, -170)
    /\ NumPolys = 4
    /\ SliceEast(2) = Deg(0)

----------------------------------------------------------------------------
(* C2 *)

InClosedRange(pt) ==
    /\ -(Deg(90) - Eps) <= Lat(pt) /\ Lat(pt) <= Deg(90) - Eps
    /\ -(Deg(180) - Eps) <= Lon(pt) /\ Lon(pt) <= Deg(180) - Eps

OffSingularity(pt) ==
    /\ -Deg(90) < Lat(pt) /\ Lat(pt) < Deg(90)
    /\ -Deg(180) < Lon(pt) /\ Lon(pt) < Deg(180)

\* an argument strictly between 89.9999 and 90 (or 179.9999 and 180) in
\* absolute value: the nudge, which tests for equality, leaves it alone
InGap(x, limit) ==
    \/ limit - Eps < x /\ x < limit
    \/ -limit < x /\ x < -(limit - Eps)

\* C2 as stated: every emitted latitude lies in [-89.9999, 89.9999] and every
\* emitted longitude in [-179.9999, 179.9999]
C2_Original == \A pt \in AllPoints : InClosedRange(pt)

\* C2 as amended: no emitted point has latitude 90 or -90 or longitude 180 or
\* -180: every emitted latitude lies strictly between -90 and 90 and every
\* emitted longitude strictly between -180 and 180; they lie in
\* [-89.9999, 89.9999] and [-179.9999, 179.9999] when no argument lies strictly
\* between 89.9999 and 90, or 179.9999 and 180, in absolute value
C2_OffSingularities ==
    /\ \A pt \in AllPoints : OffSingularity(pt)
    /\ ( /\ ~InGap(args.north, Deg(90)) /\ ~InGap(args.south, Deg(90))
         /\ ~InGap(args.east, Deg(180)) /\ ~InGap(args.west, Deg(180)) )
       => \A pt \in AllPoints : InClosedRange(pt)

C2_Witness ==
    /\ pc = "done"
    /\ args = Box(90, 180, -90, -180)
    /\ NumPolys = 4
    /\ \E pt \in AllPoints : Lon(pt) = -(Deg(180) - Eps) /\ Lat(pt) = Deg(90) - Eps
    /\ \E pt \in AllPoints : Lon(pt) = Deg(180) - Eps /\ Lat(pt) = -(Deg(90) - Eps)

----------------------------------------------------------------------------
(* C3 *)

\* C3 as stated: getBackground(10, 10, -10, -10) yields one slice, with
\* stepLong = 20, whose top edge holds only the two points [-10, 10] and
\* [10, 10]
C3_Original ==
    (pc = "done" /\ args = Box(10, 10, -10, -10)) =>
        /\ NumPolys = 1
        /\ stepLong = Deg(20)
        /\ EdgePoints(1, "top") = << <<Deg(-10), Deg(10)>>, <<Deg(10), Deg(10)>> >>

\* C3 as amended: getBackground(10, 10, -10, -10) yields one slice, with
\* stepLong = 20, whose top edge holds the five points [-10, 10], [-5, 10],
\* [0, 10], [5, 10], [10, 10]
C3_SmallBox ==
    (pc = "done" /\ args = Box(10, 10, -10, -10)) =>
        /\ NumPolys = 1
        /\ stepLong = Deg(20)
        /\ EdgePoints(1, "top") =
              << <<Deg(-10), Deg(10)>>, <<Deg(-5), Deg(10)>>,
                 <<Deg(0), Deg(10)>>, <<Deg(5), Deg(10)>>,
                 <<Deg(10), Deg(10)>> >>

C3_Witness ==
    /\ pc = "done"
    /\ args = Box(10, 10, -10, -10)
    /\ Len(EdgePoints(1, "top")) = 5

----------------------------------------------------------------------------
(* C6 *)

InSlice == pc \in {"top", "right", "bottom", "left"}

StrictlyPositive(x) == x # NaN /\ x > 0

\* C6: getBackground terminates, and stepLong and stepLat are strictly
\* positive on every iteration of the outer loop
C6_Terminates ==
    /\ [](InSlice => (StrictlyPositive(stepLong) /\ StrictlyPositive(stepLat)))
    /\ <>(pc = "done")

\* termination alone: every call reaches the return statement
Termination == <>(pc = "done")

\* what holds of the steps: stepLong is strictly positive on every iteration,
\* and stepLat is strictly positive unless the nudge has made north = south,
\* where it is NaN
StepsInSlice ==
    InSlice =>
        /\ StrictlyPositive(stepLong)
        /\ IF north = south THEN stepLat = NaN ELSE StrictlyPositive(stepLat)

----------------------------------------------------------------------------
(* C7 *)

FirstOf(p, t) ==
    Ring(p)[CHOOSE i \in EdgeIdx(p, t) : \A j \in EdgeIdx(p, t) : i <= j]

LastOf(p, t) ==
    Ring(p)[CHOOSE i \in EdgeIdx(p, t) : \A j \in EdgeIdx(p, t) : j <= i]

EdgeOrd(t) ==
    CASE t = "top" -> 1 [] t = "right" -> 2 [] t = "bottom" -> 3
      [] t = "left" -> 4

\* consecutive points k, k + 1 of ring p that the same loop t emitted
Within(p, t) ==
    {k \in 1..(Len(Ring(p)) - 1) : Tags(p)[k] = t /\ Tags(p)[k + 1] = t}

TracedInOrder(p) ==
    LET r == Ring(p)
        W == SliceWest(p)
        E == SliceEast(p)
    IN  /\ \A k \in 1..(Len(r) - 1) : EdgeOrd(Tags(p)[k]) <= EdgeOrd(Tags(p)[k + 1])
        /\ \A t \in {"top", "right", "bottom", "left"} : EdgeIdx(p, t) # {}
        \* top
        /\ r[1] = <<W, north>>
        /\ Tags(p)[1] = "top"
        /\ \A k \in EdgeIdx(p, "top") : Lat(r[k]) = north
        /\ \A k \in Within(p, "top") : Lon(r[k]) <= Lon(r[k + 1])
        \* right
        /\ FirstOf(p, "right") = <<E, north>>
        /\ \A k \in EdgeIdx(p, "right") : Lon(r[k]) = E
        /\ \A k \in Within(p, "right") : Lat(r[k]) > Lat(r[k + 1])
        /\ LastOf(p, "right") = <<E, south>>
        \* bottom
        /\ FirstOf(p, "bottom") = <<E, south>>
        /\ \A k \in EdgeIdx(p, "bottom") : Lat(r[k]) = south
        /\ \A k \in Within(p, "bottom") : Lon(r[k]) > Lon(r[k + 1])
        \* left
        /\ FirstOf(p, "left") = <<W, south>>
        /\ \A k \in EdgeIdx(p, "left") : Lon(r[k]) = W
        /\ \A k \in Within(p, "left") : Lat(r[k]) < Lat(r[k + 1])

\* C7: every slice ring is traced top, right, bottom, left: it starts at
\* (slice west, north); the top points have latitude north and non-decreasing
\* longitude; the right edge starts at (slice east, north), keeps longitude
\* slice east and descends to south; the bottom edge starts at (slice east,
\* south), keeps latitude south with decreasing longitude; the left edge
\* starts at (slice west, south), keeps longitude slice west and ascends
C7_Order == \A p \in 1..NumPolys : Complete(p) => TracedInOrder(p)

\* the same, for the boxes whose nudged bounds still have south <= north
RingOrderIfUpright ==
    south <= north => \A p \in 1..NumPolys : Complete(p) => TracedInOrder(p)

----------------------------------------------------------------------------
(* C8 *)

Width(p) == SliceEast(p) - SliceWest(p)

\* C8: every slice is wider than 0 and at most 90 degrees wide, and all
\* slices of a call have the width (east' - west') / ceil((east' - west') / 90)
C8_EqualWidths ==
    \A p \in 1..NumPolys : Complete(p) =>
        /\ Width(p) > 0
        /\ Width(p) <= Deg(90)
        /\ Width(p) * Ceil(east - west, Deg(90)) = east - west
        /\ \A q \in 1..NumPolys : Complete(q) => Width(q) = Width(p)

\* 189.9999 degrees in three slices of 63.3333 degrees
C8_Witness ==
    /\ pc = "done"
    /\ args.west = Deg(-180)
    /\ args.east = Deg(10)
    /\ NumPolys = 3
    /\ Width(1) * 3 = Deg(190) - Eps
    /\ Width(3) = Width(1)

----------------------------------------------------------------------------
(* C9 *)

Dist(a, b) == IF a < b THEN b - a ELSE a - b

\* C9: two consecutive ring points that both have latitude north, or both
\* latitude south, are at most 5 degrees of longitude apart; the last point of
\* the top edge is within 5 degrees of the slice's east edge and the last point
\* of the bottom edge within 5 degrees of its west edge
C9_Density ==
    \A p \in 1..NumPolys : Complete(p) =>
        /\ \A k \in 1..(Len(Ring(p)) - 1) :
              ( /\ Lat(Ring(p)[k]) = Lat(Ring(p)[k + 1])
                /\ Lat(Ring(p)[k]) \in {north, south} )
              => Dist(Lon(Ring(p)[k]), Lon(Ring(p)[k + 1])) <= Deg(5)
        /\ Dist(Lon(LastOf(p, "top")), SliceEast(p)) <= Deg(5)
        /\ Dist(Lon(LastOf(p, "bottom")), SliceWest(p)) <= Deg(5)

\* a slice 7 degrees wide: the top edge stops at 5, two degrees from the corner
C9_Witness ==
    /\ pc = "done"
    /\ args.west = Deg(0)
    /\ args.east = Deg(7)
    /\ args.south < args.north - Deg(1)
    /\ Lon(LastOf(1, "top")) = Deg(5)
    /\ FirstOf(1, "right") = <<Deg(7), north>>

----------------------------------------------------------------------------
(* C10 *)

Closed(p) ==
    /\ Ring(p)[Len(Ring(p))] = Ring(p)[1]
    /\ Ring(p)[1] = <<SliceWest(p), north>>

\* C10: every slice ring is closed: its last point is (slice west, north),
\* its first point
C10_Closed == \A p \in 1..NumPolys : Complete(p) => Closed(p)

\* the same, for the boxes whose nudged bounds still have south <= north
ClosedIfUpright ==
    south <= north => \A p \in 1..NumPolys : Complete(p) => Closed(p)

----------------------------------------------------------------------------
(* C4 *)

\* the ring slot k of polygon i is carried to slot k of the output
SlotKept(inPoly, outPoly, k, conv(_)) ==
    Truthy(At(inPoly, k)) => At(outPoly, k) = Some(conv(At(inPoly, k)[1]))

\* a hole without a surface stays in slot 1 and leaves slot 0 empty
HoleNotShifted(inPoly, outPoly, conv(_)) ==
    (~Truthy(At(inPoly, 0)) /\ Truthy(At(inPoly, 1))) =>
        /\ ~Truthy(At(outPoly, 0))
        /\ At(outPoly, 1) = Some(conv(At(inPoly, 1)[1]))

SlotsPreserved(input, output, conv(_)) ==
    \A i \in 1..Len(input) :
        /\ SlotKept(input[i], output[i], 0, conv)
        /\ SlotKept(input[i], output[i], 1, conv)
        /\ HoleNotShifted(input[i], output[i], conv)

\* C4: both polygon converters write a present surface to output slot 0 and
\* a present hole to output slot 1; a hole without a surface stays in slot 1
\* and slot 0 is left empty
C4_SlotsPreserved ==
    /\ (mcall = "roundTrip" /\ mpc \in {"toPolygon", "done"})
          => SlotsPreserved(mp, multiGeoArea, multiPointToGeo)
    /\ mpc = "done" => SlotsPreserved(multiGeoArea, back, multiGeoToPoint)

\* what the code does: the rings that are present are written in order from
\* slot 0 on, so a hole without a surface lands in slot 0
SlotsCompacted ==
    /\ (mcall = "roundTrip" /\ mpc \in {"toPolygon", "done"}) =>
          \A i \in 1..Len(mp) :
              (~Truthy(At(mp[i], 0)) /\ Truthy(At(mp[i], 1))) =>
                  multiGeoArea[i] = <<Some(multiPointToGeo(At(mp[i], 1)[1]))>>
    /\ mpc = "done" =>
          \A i \in 1..Len(multiGeoArea) :
              (~Truthy(At(multiGeoArea[i], 0)) /\ Truthy(At(multiGeoArea[i], 1))) =>
                  back[i] = <<Some(multiGeoToPoint(At(multiGeoArea[i], 1)[1]))>>

----------------------------------------------------------------------------
(* C5 *)

\* a surface ring and optionally a hole ring, every ring a non-empty sequence
\* of 2-element points
SurfaceAndHole(polygon) ==
    /\ Len(polygon) \in {1, 2}
    /\ \A k \in 1..Len(polygon) :
          /\ Truthy(polygon[k])
          /\ Len(polygon[k][1]) > 0
          /\ \A j \in 1..Len(polygon[k][1]) : Len(polygon[k][1][j]) = 2

\* C5: for a multi-polygon whose polygons each hold a surface and optionally
\* a hole, of non-empty rings of 2-element points,
\* multiGeoPolygonToMultipolygon(multiPolygonToGeo(M)) = M
C5_RoundTrip ==
    ( /\ mcall = "roundTrip"
      /\ mpc = "done"
      /\ \A i \in 1..Len(mp) : SurfaceAndHole(mp[i]) )
    => /\ back = mp
       /\ Len(back) = Len(mp)
       /\ \A i \in 1..Len(mp) : Len(back[i]) = Len(mp[i])

C5_Witness ==
    /\ mcall = "roundTrip"
    /\ mpc = "done"
    /\ Len(mp) = 2
    /\ SurfaceAndHole(mp[1]) /\ Len(mp[1]) = 2
    /\ SurfaceAndHole(mp[2]) /\ Len(mp[2]) = 1
    /\ back = mp

====
